---------------------------- MODULE Spec2Model ----------------------------
(***************************************************************************)
(* Model of src/example.rs: lengths stored as an i64 count of nanometers   *)
(* and tagged at compile time with a unit (Meters, Millimeters,            *)
(* Kilometers), with their conversions, arithmetic, comparisons, the       *)
(* integer square root and the demonstration driver `main`.                *)
(*                                                                         *)
(* TLC integers are 32 bits wide, the program's are 64 bits wide and its   *)
(* f64 values carry 53 significant bits, so integers are modelled exactly  *)
(* as sign and magnitude, the magnitude a little-endian sequence of limbs  *)
(* below Base without a leading zero limb (one value, one representation). *)
(***************************************************************************)
EXTENDS Integers, Sequences, FiniteSets, TLC

(***************************************************************************)
(* Exact natural numbers.                                                  *)
(***************************************************************************)
\* limb products and carries stay below 2^31
Base == 2^15
LimbBits == CHOOSE k \in 1..30 : 2^k = Base

Limb(a, i) == IF i <= Len(a) THEN a[i] ELSE 0

RECURSIVE NatNorm(_)
NatNorm(a) ==
    IF Len(a) > 0 /\ a[Len(a)] = 0 THEN NatNorm(SubSeq(a, 1, Len(a) - 1)) ELSE a

RECURSIVE NatOfInt(_)
NatOfInt(n) == IF n = 0 THEN <<>> ELSE <<n % Base>> \o NatOfInt(n \div Base)

RECURSIVE NatCmpFrom(_, _, _)
NatCmpFrom(a, b, i) ==
    IF i = 0 THEN 0
    ELSE IF a[i] < b[i] THEN -1
    ELSE IF a[i] > b[i] THEN 1
    ELSE NatCmpFrom(a, b, i - 1)

\* -1, 0 or 1 as a < b, a = b, a > b
NatCmp(a, b) ==
    IF Len(a) < Len(b) THEN -1
    ELSE IF Len(a) > Len(b) THEN 1
    ELSE NatCmpFrom(a, b, Len(a))

RECURSIVE NatAddFrom(_, _, _, _)
NatAddFrom(a, b, i, carry) ==
    IF i > Len(a) /\ i > Len(b)
    THEN IF carry = 0 THEN <<>> ELSE <<carry>>
    ELSE LET t == Limb(a, i) + Limb(b, i) + carry
         IN  <<t % Base>> \o NatAddFrom(a, b, i + 1, t \div Base)

NatAdd(a, b) == NatAddFrom(a, b, 1, 0)

RECURSIVE NatSubFrom(_, _, _, _)
NatSubFrom(a, b, i, borrow) ==
    IF i > Len(a) THEN <<>>
    ELSE LET t == a[i] - Limb(b, i) - borrow
         IN  IF t < 0
             THEN <<t + Base>> \o NatSubFrom(a, b, i + 1, 1)
             ELSE <<t>> \o NatSubFrom(a, b, i + 1, 0)

\* a - b, for a >= b
NatSub(a, b) == NatNorm(NatSubFrom(a, b, 1, 0))

RECURSIVE NatMulAddFrom(_, _, _, _)
NatMulAddFrom(a, d, i, carry) ==
    IF i > Len(a)
    THEN IF carry = 0 THEN <<>> ELSE <<carry>>
    ELSE LET t == a[i] * d + carry
         IN  <<t % Base>> \o NatMulAddFrom(a, d, i + 1, t \div Base)

\* a * d + c, for d and c below Base
NatMulAdd(a, d, c) == NatNorm(NatMulAddFrom(a, d, 1, c))

NatShlLimbs(a, k) == IF a = <<>> THEN <<>> ELSE [i \in 1..k |-> 0] \o a

RECURSIVE NatMulFrom(_, _, _)
NatMulFrom(a, b, i) ==
    IF i > Len(b) THEN <<>>
    ELSE NatAdd(NatShlLimbs(NatMulAdd(a, b[i], 0), i - 1), NatMulFrom(a, b, i + 1))

NatMul(a, b) == NatMulFrom(a, b, 1)

RECURSIVE NatDivSmallFrom(_, _, _, _)
NatDivSmallFrom(a, d, i, rem) ==
    IF i = 0 THEN <<>>
    ELSE LET t == rem * Base + a[i]
         IN  NatDivSmallFrom(a, d, i - 1, t % d) \o <<t \div d>>

\* the quotient a \div d, for 0 < d <= Base
NatDivSmall(a, d) == NatNorm(NatDivSmallFrom(a, d, Len(a), 0))

NatPow2(k) == NatShlLimbs(<<2^(k % LimbBits)>>, k \div LimbBits)

NatShl(a, k) == NatShlLimbs(NatMulAdd(a, 2^(k % LimbBits), 0), k \div LimbBits)

NatShr(a, k) ==
    IF k \div LimbBits >= Len(a) THEN <<>>
    ELSE NatDivSmall(SubSeq(a, k \div LimbBits + 1, Len(a)), 2^(k % LimbBits))

RECURSIVE SmallBitLen(_)
SmallBitLen(n) == IF n = 0 THEN 0 ELSE 1 + SmallBitLen(n \div 2)

\* the number of bits of a: 0 for 0, else floor(log2 a) + 1
NatBitLen(a) ==
    IF a = <<>> THEN 0 ELSE (Len(a) - 1) * LimbBits + SmallBitLen(a[Len(a)])

\* bit i of a, bit 0 the lowest
NatBit(a, i) == (Limb(a, i \div LimbBits + 1) \div 2^(i % LimbBits)) % 2

\* a mod 2^k
NatModPow2(a, k) ==
    NatNorm([i \in 1..Len(a) |->
        IF i <= k \div LimbBits THEN a[i]
        ELSE IF i = k \div LimbBits + 1 THEN a[i] % 2^(k % LimbBits)
        ELSE 0])

\* r * Base + limb
NatPushLimb(r, limb) ==
    IF r = <<>> THEN (IF limb = 0 THEN <<>> ELSE <<limb>>) ELSE <<limb>> \o r

\* the largest digit d + e, e < 2^(k+1), with b * (d + e) <= cur
RECURSIVE NatQuotDigit(_, _, _, _)
NatQuotDigit(cur, b, d, k) ==
    IF k < 0 THEN d
    ELSE IF NatCmp(NatMulAdd(b, d + 2^k, 0), cur) <= 0
         THEN NatQuotDigit(cur, b, d + 2^k, k - 1)
         ELSE NatQuotDigit(cur, b, d, k - 1)

\* long division of limbs i..1 of a by b, r the remainder so far
RECURSIVE NatDivFrom(_, _, _, _)
NatDivFrom(a, b, i, r) ==
    IF i = 0 THEN <<<<>>, r>>
    ELSE LET cur  == NatPushLimb(r, a[i])
             d    == NatQuotDigit(cur, b, 0, LimbBits - 1)
             rest == NatDivFrom(a, b, i - 1, NatSub(cur, NatMulAdd(b, d, 0)))
         IN  <<rest[1] \o <<d>>, rest[2]>>

\* <<quotient, remainder>> of a by b, for b > 0
NatDivMod(a, b) ==
    LET qr == NatDivFrom(a, b, Len(a), <<>>) IN <<NatNorm(qr[1]), qr[2]>>

(***************************************************************************)
(* Exact integers: [neg, mag], zero never negative.                        *)
(***************************************************************************)
Z(neg, mag) == [neg |-> neg /\ mag # <<>>, mag |-> mag]

ZOfInt(n) == IF n < 0 THEN Z(TRUE, NatOfInt(-n)) ELSE Z(FALSE, NatOfInt(n))

Z0 == ZOfInt(0)

ZNeg(a) == Z(~a.neg, a.mag)

ZAdd(a, b) ==
    IF a.neg = b.neg THEN Z(a.neg, NatAdd(a.mag, b.mag))
    ELSE IF NatCmp(a.mag, b.mag) >= 0 THEN Z(a.neg, NatSub(a.mag, b.mag))
    ELSE Z(b.neg, NatSub(b.mag, a.mag))

ZSub(a, b) == ZAdd(a, ZNeg(b))

ZMul(a, b) == Z(a.neg # b.neg, NatMul(a.mag, b.mag))

\* -1, 0 or 1 as a < b, a = b, a > b
ZCmp(a, b) ==
    IF a.neg /\ ~b.neg THEN -1
    ELSE IF ~a.neg /\ b.neg THEN 1
    ELSE IF a.neg THEN NatCmp(b.mag, a.mag)
    ELSE NatCmp(a.mag, b.mag)

ZLt(a, b) == ZCmp(a, b) < 0
ZLe(a, b) == ZCmp(a, b) <= 0

\* the quotient rounded toward zero, for b # 0
ZDivTrunc(a, b) == Z(a.neg # b.neg, NatDivMod(a.mag, b.mag)[1])

ZPow2(k) == Z(FALSE, NatPow2(k))


(***************************************************************************)
(* i64: the type of Length::nm and of the integer scalars.  An operation   *)
(* either returns a value or panics.  Whether +, -, * and an oversized     *)
(* shift panic or wrap is decided by the build (rustc's overflow checks:   *)
(* on in the default debug profile, off in the release profile); the flag  *)
(* oc carries that choice.  Division by zero and i64::MIN / -1 panic in    *)
(* every build.                                                            *)
(***************************************************************************)
Bits == 64

I64Min == ZNeg(ZPow2(Bits - 1))
I64Max == ZSub(ZPow2(Bits - 1), ZOfInt(1))

InI64(z) == ZLe(I64Min, z) /\ ZLe(z, I64Max)

\* z modulo 2^64, reinterpreted as a signed 64-bit value
WrapI64(z) ==
    LET r == NatModPow2(z.mag, Bits)
        m == IF z.neg /\ r # <<>> THEN NatSub(NatPow2(Bits), r) ELSE r
    IN  IF NatBit(m, Bits - 1) = 1
        THEN Z(TRUE, NatSub(NatPow2(Bits), m))
        ELSE Z(FALSE, m)

\* what an operation ends in: a value, a panic (the fatal error that unwinds
\* the thread), or the Err of a Result
Ok(v) == [ok |-> TRUE, panic |-> FALSE, val |-> v, msg |-> ""]
Panic(m) == [ok |-> FALSE, panic |-> TRUE, val |-> Z0, msg |-> m]
Err(m) == [ok |-> FALSE, panic |-> FALSE, val |-> Z0, msg |-> m]

I64Checked(oc, z, what) ==
    IF InI64(z) THEN Ok(z)
    ELSE IF oc THEN Panic(what)
    ELSE Ok(WrapI64(z))

I64Add(oc, a, b) == I64Checked(oc, ZAdd(a, b), "attempt to add with overflow")
I64Sub(oc, a, b) == I64Checked(oc, ZSub(a, b), "attempt to subtract with overflow")
I64Mul(oc, a, b) == I64Checked(oc, ZMul(a, b), "attempt to multiply with overflow")

\* division rounding toward minus infinity
I64DivFloor(a, b) ==
    IF b = Z0 THEN Panic("attempt to divide by zero")
    ELSE IF a = I64Min /\ b = ZOfInt(-1) THEN Panic("attempt to divide with overflow")
    ELSE LET qr == NatDivMod(a.mag, b.mag)
         IN  IF a.neg # b.neg /\ qr[2] # <<>>
             THEN Ok(Z(TRUE, NatAdd(qr[1], <<1>>)))
             ELSE Ok(Z(a.neg # b.neg, qr[1]))

I64Div(a, b) ==
    IF b = Z0 THEN Panic("attempt to divide by zero")
    ELSE IF a = I64Min /\ b = ZOfInt(-1) THEN Panic("attempt to divide with overflow")
    ELSE Ok(ZDivTrunc(a, b))

\* n >> k for 0 <= k < 64: the floor of n / 2^k
ZShrFloor(n, k) ==
    IF n.neg
    THEN Z(TRUE, NatAdd(NatShr(NatSub(n.mag, <<1>>), k), <<1>>))
    ELSE Z(FALSE, NatShr(n.mag, k))

\* n >> shift, shift an i32: an amount outside 0..63 panics under overflow
\* checks and is otherwise taken modulo 64
I64Shr(oc, n, shift) ==
    IF shift >= 0 /\ shift < Bits THEN Ok(ZShrFloor(n, shift))
    ELSE IF oc THEN Panic("attempt to shift right with overflow")
    ELSE Ok(ZShrFloor(n, shift % Bits))

\* n << 1: the bits shifted out are dropped, in every build
I64Shl1(n) == WrapI64(ZAdd(n, n))

(***************************************************************************)
(* f64.  A finite value is (-1)^neg * mant * 2^exp, kept with mant odd (or *)
(* mant = 0 and exp = 0) so that equal values are equal records; inf and   *)
(* nan are the results of a division by zero.  Every finite value the      *)
(* program can reach from 64-bit integers lies between 2^-64 and 2^128 in  *)
(* magnitude, far inside the normal range, so rounding is to 53            *)
(* significant bits, ties to even.  The sign of zero is not kept: no       *)
(* operation below tells -0.0 from 0.0.                                    *)
(***************************************************************************)
MantBits == 53

RECURSIVE SmallTrailingZeros(_)
SmallTrailingZeros(n) == IF n % 2 = 1 THEN 0 ELSE 1 + SmallTrailingZeros(n \div 2)

RECURSIVE NatZeroLimbs(_, _)
NatZeroLimbs(a, i) == IF a[i] # 0 THEN 0 ELSE 1 + NatZeroLimbs(a, i + 1)

\* the number of trailing zero bits of a > 0
NatTrailingZeros(a) ==
    LET z == NatZeroLimbs(a, 1)
    IN  z * LimbBits + SmallTrailingZeros(a[z + 1])

F64Fin(neg, m, e) ==
    IF m = <<>> THEN [kind |-> "fin", neg |-> FALSE, mant |-> <<>>, exp |-> 0]
    ELSE LET tz == NatTrailingZeros(m)
         IN  [kind |-> "fin", neg |-> neg, mant |-> NatShr(m, tz), exp |-> e + tz]

F64Inf(neg) == [kind |-> "inf", neg |-> neg, mant |-> <<>>, exp |-> 0]
F64NaN == [kind |-> "nan", neg |-> FALSE, mant |-> <<>>, exp |-> 0]

\* m * 2^e rounded to the nearest f64, ties to the even mantissa
F64Round(neg, m, e) ==
    IF NatBitLen(m) <= MantBits THEN F64Fin(neg, m, e)
    ELSE LET sh   == NatBitLen(m) - MantBits
             q    == NatShr(m, sh)
             c    == NatCmp(NatModPow2(m, sh), NatPow2(sh - 1))
             up   == c > 0 \/ (c = 0 /\ NatBit(q, 0) = 1)
         IN  F64Fin(neg, IF up THEN NatAdd(q, <<1>>) ELSE q, e + sh)

\* `n as f64`
F64OfI64(n) == F64Round(n.neg, n.mag, 0)

\* x * y, for finite x and y
F64Mul(x, y) == F64Round(x.neg # y.neg, NatMul(x.mant, y.mant), x.exp + y.exp)

\* x / y, for finite x and y: the quotient is taken to at least 55 bits and
\* a nonzero remainder kept as a sticky last bit, then rounded
F64Div(x, y) ==
    IF y.mant = <<>> THEN (IF x.mant = <<>> THEN F64NaN ELSE F64Inf(x.neg))
    ELSE IF x.mant = <<>> THEN F64Fin(FALSE, <<>>, 0)
    ELSE LET d  == MantBits + 2 + NatBitLen(y.mant) - NatBitLen(x.mant)
             k  == IF d > 0 THEN d ELSE 0
             qr == NatDivMod(NatShl(x.mant, k), y.mant)
             qs == NatMulAdd(qr[1], 2, IF qr[2] = <<>> THEN 0 ELSE 1)
         IN  F64Round(x.neg # y.neg, qs, x.exp - y.exp - k - 1)

\* `x as i64`: toward zero, saturating at the ends of the range, nan to 0
F64ToI64(x) ==
    IF x.kind = "nan" THEN Z0
    ELSE IF x.kind = "inf" \/ NatBitLen(x.mant) + x.exp > Bits
         THEN (IF x.neg THEN I64Min ELSE I64Max)
    ELSE LET t == IF x.exp >= 0 THEN Z(x.neg, NatShl(x.mant, x.exp))
                  ELSE Z(x.neg, NatShr(x.mant, -x.exp))
         IN  IF ZLt(t, I64Min) THEN I64Min
             ELSE IF ZLt(I64Max, t) THEN I64Max
             ELSE t

\* whether z is an f64 value: `z as f64` loses nothing
ExactInF64(z) == z = Z0 \/ NatBitLen(z.mag) - NatTrailingZeros(z.mag) <= MantBits

\* std::f64::consts::PI = 0x400921FB54442D18 = 7074237752028440 * 2^-51
PI ==
    F64Fin(FALSE,
           NatAdd(NatMul(NatOfInt(7074237), NatOfInt(1000000000)), NatOfInt(752028440)),
           -51)


(***************************************************************************)
(* The units and the Length type.                                          *)
(***************************************************************************)
Units == {"Meters", "Millimeters", "Kilometers"}

singular_name(T) ==
    CASE T = "Meters"      -> "meter"
      [] T = "Millimeters" -> "millimeter"
      [] T = "Kilometers"  -> "kilometer"

num_nm_in_unit(T) ==
    CASE T = "Meters"      -> ZOfInt(1000000000)
      [] T = "Millimeters" -> ZOfInt(1000000)
      [] T = "Kilometers"  -> ZMul(ZOfInt(1000000), ZOfInt(1000000))

\* Length<T> { nm, unit: PhantomData<T> }
Length(nm, T) == [nm |-> nm, unit |-> T]

\* an operation's Length result from the outcome of the arithmetic on nm
WithUnit(r, T) == IF r.ok THEN Ok(Length(r.val, T)) ELSE r

\* Display: the quotient that is printed, the unit's name and the plural s
fmt(l) ==
    LET num_val == F64Div(F64OfI64(l.nm), F64OfI64(num_nm_in_unit(l.unit)))
    IN  [num  |-> num_val,
         name |-> singular_name(l.unit),
         s    |-> IF num_val = F64OfI64(ZOfInt(1)) THEN "" ELSE "s"]

\* from_i64 with wrapping_mul: no panic in any build
from_i64_wrapping(oc, n, T) ==
    Ok(Length(WrapI64(ZMul(n, num_nm_in_unit(T))), T))

\* Length::<T>::from(n: i64)
from_i64(oc, n, T) == WithUnit(I64Mul(oc, n, num_nm_in_unit(T)), T)

\* Length::<T>::from(n: &i64), which the macros meters!, millimeters! and
\* kilometers! call on a number
from_ref_i64(oc, n, T) == WithUnit(I64Mul(oc, n, num_nm_in_unit(T)), T)

\* from_f64 scaling before the cast to i64
from_f64_scaled_first(oc, x, T) ==
    Ok(Length(F64ToI64(F64Mul(x, F64OfI64(num_nm_in_unit(T)))), T))

\* Length::<T>::from(n: f64)
from_f64(oc, x, T) == WithUnit(I64Mul(oc, F64ToI64(x), num_nm_in_unit(T)), T)

\* f64_from without the division by the unit's scale
f64_from_unscaled(l) == F64OfI64(l.nm)

\* f64::from(l: Length<T>)
f64_from(l) == F64Div(F64OfI64(l.nm), F64OfI64(num_nm_in_unit(l.unit)))

\* i64::from(l: Length<T>)
i64_from(l) == F64ToI64(F64Div(F64OfI64(l.nm), F64OfI64(num_nm_in_unit(l.unit))))

\* Length::<T2>::from(l: &Length<T1>)
from_ref_length(l, T2) == Length(l.nm, T2)

\* add with Output = Length<T2>
add_right_unit(oc, self, other) ==
    WithUnit(I64Add(oc, self.nm, other.nm), other.unit)

add(oc, self, other) == WithUnit(I64Add(oc, self.nm, other.nm), self.unit)

sub(oc, self, other) == WithUnit(I64Sub(oc, self.nm, other.nm), self.unit)

\* Length / Length dividing the integers before the cast to f64
div_length_integer(self, other) ==
    IF other.nm = Z0 THEN F64NaN ELSE F64OfI64(ZDivTrunc(self.nm, other.nm))

\* Length / Length
div_length(self, other) == F64Div(F64OfI64(self.nm), F64OfI64(other.nm))

\* Length * i64
mul_i64(oc, self, other) == WithUnit(I64Mul(oc, self.nm, other), self.unit)

\* i64 * Length with + for *
i64_mul_added(oc, self, other) ==
    WithUnit(I64Add(oc, other.nm, self), other.unit)

\* i64 * Length
i64_mul(oc, self, other) == WithUnit(I64Mul(oc, other.nm, self), other.unit)

\* Length / i64
div_i64(self, other) == WithUnit(I64Div(self.nm, other), self.unit)

\* i64 / Length as the reciprocal: the scalar divided by the magnitude
i64_div_reciprocal(self, other) ==
    WithUnit(I64Div(self, other.nm), other.unit)

\* i64 / Length
i64_div(self, other) == WithUnit(I64Div(other.nm, self), other.unit)

\* Length * f64
mul_f64(self, other) ==
    Length(F64ToI64(F64Mul(F64OfI64(self.nm), other)), self.unit)

\* eq as #[derive(PartialEq)] would compare: the same type only
eq_same_unit(self, other) == self.nm = other.nm /\ self.unit = other.unit

eq(self, other) == self.nm = other.nm

partial_cmp(self, other) ==
    CASE ZCmp(self.nm, other.nm) < 0 -> "Less"
      [] ZCmp(self.nm, other.nm) = 0 -> "Equal"
      [] ZCmp(self.nm, other.nm) > 0 -> "Greater"

\* the operators < and > of PartialOrd, which call partial_cmp
lt(self, other) == partial_cmp(self, other) = "Less"
gt(self, other) == partial_cmp(self, other) = "Greater"

\* 2 * r * PI
circumference(oc, r) ==
    LET d == i64_mul(oc, ZOfInt(2), r)
    IN  IF d.ok THEN Ok(mul_f64(d.val, PI)) ELSE d

(***************************************************************************)
(* Length::sqrt.  shift is an i32, result and candidate_result are i64.    *)
(***************************************************************************)
\* while n_shifted != 0 && n_shifted != n { shift += 2; n_shifted = n >> shift; }
RECURSIVE sqrt_shift_loop(_, _, _, _)
sqrt_shift_loop(oc, n, shift, n_shifted) ==
    IF n_shifted # Z0 /\ n_shifted # n
    THEN LET r == I64Shr(oc, n, shift + 2)
         IN  IF r.ok THEN sqrt_shift_loop(oc, n, shift + 2, r.val) ELSE r
    ELSE Ok(shift)

\* while shift >= 0 { ... shift -= 2; }
RECURSIVE sqrt_digit_loop(_, _, _, _)
sqrt_digit_loop(oc, n, shift, result) ==
    IF shift >= 0
    THEN LET doubled   == I64Shl1(result)
             candidate == I64Add(oc, doubled, ZOfInt(1))
             square    == IF candidate.ok
                          THEN I64Mul(oc, candidate.val, candidate.val)
                          ELSE candidate
             shifted   == I64Shr(oc, n, shift)
         IN  IF ~square.ok THEN square
             ELSE IF ~shifted.ok THEN shifted
             ELSE sqrt_digit_loop(oc, n, shift - 2,
                      IF ZLe(square.val, shifted.val) THEN candidate.val ELSE doubled)
    ELSE Ok(result)

sqrt(oc, self) ==
    IF ZLt(self.nm, Z0) THEN Err("Can't take sqrt of negative number")
    ELSE LET first == I64Shr(oc, self.nm, 2)
             found == IF first.ok THEN sqrt_shift_loop(oc, self.nm, 2, first.val)
                      ELSE first
         IN  IF ~found.ok THEN found
             ELSE WithUnit(sqrt_digit_loop(oc, self.nm, found.val - 2, Z0), self.unit)


(***************************************************************************)
(* The inputs the operations are called with.                              *)
(***************************************************************************)
\* offsets taken around each power of two: -MaxDelta..MaxDelta
MaxDelta == 1
\* multiples of each power of two: 1..MaxMant
MaxMant == 3
\* numerators of the f64 inputs: 0..MaxFloatMant
MaxFloatMant == 3

\* the i64 values (+/- m * 2^k) + d
NearPowers(mants, exps, deltas) ==
    {v \in {ZAdd(Z(neg, NatShl(NatOfInt(m), k)), ZOfInt(d)) :
                m \in mants, k \in exps, d \in deltas, neg \in BOOLEAN} : InI64(v)}

\* the values main computes with
MainVals ==
    {ZOfInt(5), ZOfInt(10), ZOfInt(10000000),
     ZMul(ZOfInt(5), ZOfInt(1000000000)), ZMul(ZOfInt(505), ZOfInt(10000000))}

\* operands of the binary operations: around 0, i64::MIN, i64::MAX and the
\* middle of the range
PairVals == NearPowers({1}, {0, Bits - 2, Bits - 1}, -MaxDelta..MaxDelta) \cup MainVals

\* operands of the conversions from a number
ConvVals == NearPowers(1..MaxMant, 0..(Bits - 1), -MaxDelta..MaxDelta) \cup MainVals

\* operands of sqrt
SqrtVals == NearPowers({1}, 0..(Bits - 1), -MaxDelta..MaxDelta) \cup MainVals

\* f64 inputs: m * 2^e, among them halves, quarters and values beyond i64
FloatVals ==
    {F64Fin(neg, NatOfInt(m), e) :
        m \in 0..MaxFloatMant, e \in {-2, -1, 0, 1, 33, 62}, neg \in BOOLEAN}

PairLengths == {Length(v, T) : v \in PairVals, T \in Units}

(***************************************************************************)
(* State.  A behaviour is either one run of main, or one call of a library *)
(* operation (op, on arg, ending in ret), after a conversion followed by   *)
(* one conversion back to a number (op2, ending in ret2).                  *)
(***************************************************************************)
VARIABLES
    overflow_checks,   \* the build: TRUE when overflow checks are compiled in
    pc,                \* "idle", "returned", "converted"; or main's position
    op, arg, ret,      \* the call, its arguments, its outcome
    op2, ret2,         \* the conversion back, its result
    l1, l2, l3, l3_meters, c1,   \* main's locals
    stdout             \* the lines main has printed

vars == <<overflow_checks, pc, op, arg, ret, op2, ret2,
          l1, l2, l3, l3_meters, c1, stdout>>

calls == <<op, arg, ret, op2, ret2>>
locals == <<l1, l2, l3, l3_meters, c1, stdout>>

NoLength == Length(Z0, "Meters")
NoFloat == F64Fin(FALSE, <<>>, 0)
NoArg == [a |-> NoLength, b |-> NoLength, n |-> Z0, x |-> NoFloat, t |-> "Meters"]

Init ==
    /\ overflow_checks \in BOOLEAN
    /\ pc \in {"idle", "main"}
    /\ op = "" /\ arg = NoArg /\ ret = Ok(Z0)
    /\ op2 = "" /\ ret2 = Ok(Z0)
    /\ l1 = NoLength /\ l2 = NoLength /\ l3 = NoLength
    /\ l3_meters = NoFloat /\ c1 = NoLength
    /\ stdout = <<>>

\* one call of a library operation, made from "idle"
Call(name, args, outcome) ==
    /\ pc' = "returned"
    /\ op' = name /\ arg' = args /\ ret' = outcome
    /\ UNCHANGED <<overflow_checks, op2, ret2, locals>>

call_eq ==
    /\ pc = "idle"
    /\ \E a \in PairLengths, b \in PairLengths :
        Call("eq", [NoArg EXCEPT !.a = a, !.b = b], Ok(eq(a, b)))

call_partial_cmp ==
    /\ pc = "idle"
    /\ \E a \in PairLengths, b \in PairLengths :
        Call("partial_cmp", [NoArg EXCEPT !.a = a, !.b = b], Ok(partial_cmp(a, b)))

call_lt ==
    /\ pc = "idle"
    /\ \E a \in PairLengths, b \in PairLengths :
        Call("lt", [NoArg EXCEPT !.a = a, !.b = b], Ok(lt(a, b)))

call_gt ==
    /\ pc = "idle"
    /\ \E a \in PairLengths, b \in PairLengths :
        Call("gt", [NoArg EXCEPT !.a = a, !.b = b], Ok(gt(a, b)))

call_from_ref_length ==
    /\ pc = "idle"
    /\ \E a \in PairLengths, T \in Units :
        Call("from_ref_length", [NoArg EXCEPT !.a = a, !.t = T],
             Ok(from_ref_length(a, T)))

call_add ==
    /\ pc = "idle"
    /\ \E a \in PairLengths, b \in PairLengths :
        Call("add", [NoArg EXCEPT !.a = a, !.b = b], add(overflow_checks, a, b))

call_sub ==
    /\ pc = "idle"
    /\ \E a \in PairLengths, b \in PairLengths :
        Call("sub", [NoArg EXCEPT !.a = a, !.b = b], sub(overflow_checks, a, b))

call_div_length ==
    /\ pc = "idle"
    /\ \E a \in PairLengths, b \in PairLengths :
        Call("div_length", [NoArg EXCEPT !.a = a, !.b = b], Ok(div_length(a, b)))

call_mul_i64 ==
    /\ pc = "idle"
    /\ \E a \in PairLengths, n \in PairVals :
        Call("mul_i64", [NoArg EXCEPT !.a = a, !.n = n],
             mul_i64(overflow_checks, a, n))

call_i64_mul ==
    /\ pc = "idle"
    /\ \E a \in PairLengths, n \in PairVals :
        Call("i64_mul", [NoArg EXCEPT !.a = a, !.n = n],
             i64_mul(overflow_checks, n, a))

call_div_i64 ==
    /\ pc = "idle"
    /\ \E a \in PairLengths, n \in PairVals :
        Call("div_i64", [NoArg EXCEPT !.a = a, !.n = n], div_i64(a, n))

call_i64_div ==
    /\ pc = "idle"
    /\ \E a \in PairLengths, n \in PairVals :
        Call("i64_div", [NoArg EXCEPT !.a = a, !.n = n], i64_div(n, a))

call_from_i64 ==
    /\ pc = "idle"
    /\ \E n \in ConvVals, T \in Units :
        Call("from_i64", [NoArg EXCEPT !.n = n, !.t = T],
             from_i64(overflow_checks, n, T))

call_from_ref_i64 ==
    /\ pc = "idle"
    /\ \E n \in MainVals, T \in Units :
        Call("from_ref_i64", [NoArg EXCEPT !.n = n, !.t = T],
             from_ref_i64(overflow_checks, n, T))

call_from_f64 ==
    /\ pc = "idle"
    /\ \E x \in FloatVals, T \in Units :
        Call("from_f64", [NoArg EXCEPT !.x = x, !.t = T],
             from_f64(overflow_checks, x, T))

call_sqrt ==
    /\ pc = "idle"
    /\ \E n \in SqrtVals, T \in Units :
        Call("sqrt", [NoArg EXCEPT !.a = Length(n, T)],
             sqrt(overflow_checks, Length(n, T)))

\* the Length a conversion returned, turned back into a number
Back(name, result) ==
    /\ pc = "returned"
    /\ op \in {"from_i64", "from_ref_i64", "from_f64", "from_ref_length"}
    /\ ret.ok
    /\ pc' = "converted"
    /\ op2' = name /\ ret2' = Ok(result)
    /\ UNCHANGED <<overflow_checks, op, arg, ret, locals>>

then_i64_from == Back("i64_from", i64_from(ret.val))

then_f64_from == Back("f64_from", f64_from(ret.val))


(***************************************************************************)
(* main, one action per statement.  A panic ends the program.              *)
(***************************************************************************)
\* let l1 = millimeters!(10);
main_l1 ==
    /\ pc = "main"
    /\ LET r == from_ref_i64(overflow_checks, ZOfInt(10), "Millimeters")
       IN  IF r.ok THEN l1' = r.val /\ pc' = "L255"
           ELSE l1' = l1 /\ pc' = "panicked"
    /\ UNCHANGED <<overflow_checks, calls, l2, l3, l3_meters, c1, stdout>>

\* let l2 = meters!(5);
main_l2 ==
    /\ pc = "L255"
    /\ LET r == from_ref_i64(overflow_checks, ZOfInt(5), "Meters")
       IN  IF r.ok THEN l2' = r.val /\ pc' = "L256"
           ELSE l2' = l2 /\ pc' = "panicked"
    /\ UNCHANGED <<overflow_checks, calls, l1, l3, l3_meters, c1, stdout>>

\* let l3 = (5 * l1) + l2;
main_l3 ==
    /\ pc = "L256"
    /\ LET p == i64_mul(overflow_checks, ZOfInt(5), l1)
           r == IF p.ok THEN add(overflow_checks, p.val, l2) ELSE p
       IN  IF r.ok THEN l3' = r.val /\ pc' = "L257"
           ELSE l3' = l3 /\ pc' = "panicked"
    /\ UNCHANGED <<overflow_checks, calls, l1, l2, l3_meters, c1, stdout>>

\* let l3_meters = f64::from(meters!(l3));
main_l3_meters ==
    /\ pc = "L257"
    /\ l3_meters' = f64_from(from_ref_length(l3, "Meters"))
    /\ pc' = "L258"
    /\ UNCHANGED <<overflow_checks, calls, l1, l2, l3, c1, stdout>>

\* let c1 = circumference(l1);
main_c1 ==
    /\ pc = "L258"
    /\ LET r == circumference(overflow_checks, l1)
       IN  IF r.ok THEN c1' = r.val /\ pc' = "L260"
           ELSE c1' = c1 /\ pc' = "panicked"
    /\ UNCHANGED <<overflow_checks, calls, l1, l2, l3, l3_meters, stdout>>

\* the eight println! of lines 260 to 269: the text and the values shown
main_lines ==
    << <<"l1 = ", fmt(l1)>>,
       <<"l2 = ", fmt(l2)>>,
       <<"l3 = (5 * l1) + l2 = ", fmt(l3)>>,
       <<"l3_meters = ", l3_meters>>,
       <<"circumference(radius = ", fmt(l1), ") = ", fmt(c1)>>,
       <<"l3 > l2 : ", gt(l3, l2)>>,
       <<"l3 / l2 = ", div_length(l3, l2)>>,
       <<"size_of(Length<Meters>) = ", Bits \div 8, " bytes">> >>

main_println ==
    /\ pc = "L260"
    /\ stdout' = Append(stdout, main_lines[Len(stdout) + 1])
    /\ pc' = IF Len(stdout) + 1 = Len(main_lines) THEN "exit" ELSE "L260"
    /\ UNCHANGED <<overflow_checks, calls, l1, l2, l3, l3_meters, c1>>

main ==
    \/ main_l1 \/ main_l2 \/ main_l3 \/ main_l3_meters \/ main_c1 \/ main_println

Compare == call_eq \/ call_partial_cmp \/ call_lt \/ call_gt \/ call_from_ref_length

Arith ==
    \/ call_add \/ call_sub \/ call_div_length
    \/ call_mul_i64 \/ call_i64_mul \/ call_div_i64 \/ call_i64_div

Convert ==
    \/ call_from_i64 \/ call_from_ref_i64 \/ call_from_f64 \/ call_from_ref_length
    \/ then_i64_from \/ then_f64_from

Next == main \/ Compare \/ Arith \/ Convert \/ call_sqrt

Spec == Init /\ [][Next]_vars

\* the specifications of one family of operations each
SpecCompare == Init /\ [][Compare]_vars
SpecArith == Init /\ [][Arith]_vars
SpecConvert == Init /\ [][Convert]_vars
SpecSqrt == Init /\ [][call_sqrt]_vars


(***************************************************************************)
(* The properties.                                                         *)
(***************************************************************************)
\* the integer written in groups of three decimal digits: <<5, 50, 0, 0>>
\* is 5,050,000,000
RECURSIVE Thousands(_)
Thousands(g) ==
    IF g = <<>> THEN Z0
    ELSE ZAdd(ZMul(Thousands(SubSeq(g, 1, Len(g) - 1)), ZOfInt(1000)),
              ZOfInt(g[Len(g)]))

\* the scales as the specification gives them: 10^9, 10^6 and 10^12
ScaleToBase(T) ==
    CASE T = "Meters"      -> Thousands(<<1, 0, 0, 0>>)
      [] T = "Millimeters" -> Thousands(<<1, 0, 0>>)
      [] T = "Kilometers"  -> Thousands(<<1, 0, 0, 0, 0>>)

\* r is a 64-bit value and differs from z by a multiple of 2^64
WrappedFrom(r, z) == InI64(r) /\ NatModPow2(ZSub(r, z).mag, Bits) = <<>>

\* q is n / d rounded toward zero: n = q * d + rest, |rest| < |d|, and rest
\* is zero or has the sign of n
TruncQuotient(q, n, d) ==
    LET rest == ZSub(n, ZMul(q, d))
    IN  /\ NatCmp(rest.mag, d.mag) < 0
        /\ (rest = Z0 \/ rest.neg = n.neg)

\* what an i64 operation with the exact result z ends in, the result tagged T
InRangeOrOverflow(z, T) ==
    IF InI64(z) THEN ret = Ok(Length(z, T))
    ELSE IF overflow_checks THEN ret.panic
    ELSE ret.ok /\ ret.val.unit = T /\ WrappedFrom(ret.val.nm, z)

\* ---- C1 -----------------------------------------------------------------
\* C1: a == b, a < b and a > b are decided by the two magnitudes alone,
\* whatever the two unit tags are; a length and its relabeling to any unit
\* compare equal.
C1_CompareByMagnitude ==
    /\ op = "eq" => (ret.val <=> ZCmp(arg.a.nm, arg.b.nm) = 0)
    /\ op = "lt" => (ret.val <=> ZCmp(arg.a.nm, arg.b.nm) < 0)
    /\ op = "gt" => (ret.val <=> ZCmp(arg.a.nm, arg.b.nm) > 0)
    /\ op = "partial_cmp" =>
          ret.val = (CASE ZCmp(arg.a.nm, arg.b.nm) < 0 -> "Less"
                       [] ZCmp(arg.a.nm, arg.b.nm) = 0 -> "Equal"
                       [] ZCmp(arg.a.nm, arg.b.nm) > 0 -> "Greater")
    /\ op = "from_ref_length" =>
          /\ ret.val.unit = arg.t
          /\ eq(arg.a, ret.val) /\ eq(ret.val, arg.a)
          /\ ~lt(arg.a, ret.val) /\ ~gt(arg.a, ret.val)

\* two lengths of the same nonzero magnitude and different units compared equal
C1_Witness ==
    /\ op = "eq" /\ ret.val = TRUE
    /\ arg.a.unit # arg.b.unit /\ arg.a.nm # Z0

\* ---- C2 -----------------------------------------------------------------
\* C2 as stated: for every pair, a + b has magnitude a.nm + b.nm and a - b
\* has magnitude a.nm - b.nm, with the left operand's tag.
C2_AsStated ==
    /\ op = "add" => ret = Ok(Length(ZAdd(arg.a.nm, arg.b.nm), arg.a.unit))
    /\ op = "sub" => ret = Ok(Length(ZSub(arg.a.nm, arg.b.nm), arg.a.unit))

\* C2 amended: a + b (a - b) has the left operand's tag and magnitude
\* a.nm + b.nm (a.nm - b.nm) whenever that value fits in an i64; when it does
\* not, the operation panics in a build with overflow checks and otherwise
\* returns the value wrapped modulo 2^64, still with the left operand's tag.
C2_SumInRange ==
    /\ op = "add" => InRangeOrOverflow(ZAdd(arg.a.nm, arg.b.nm), arg.a.unit)
    /\ op = "sub" => InRangeOrOverflow(ZSub(arg.a.nm, arg.b.nm), arg.a.unit)

\* an addition of two nonzero lengths of different units returned their sum
C2_Witness ==
    /\ op = "add" /\ ret.ok
    /\ arg.a.unit # arg.b.unit /\ arg.a.nm # Z0 /\ arg.b.nm # Z0
    /\ ret.val = Length(ZAdd(arg.a.nm, arg.b.nm), arg.a.unit)

\* ---- C3 -----------------------------------------------------------------
\* C3 as stated: from_number(n, U) never fails; it returns a length tagged U
\* whose magnitude is n * scale taken modulo 2^64 as a signed value.
C3_AsStated ==
    op = "from_i64" =>
        /\ ret.ok /\ ret.val.unit = arg.t
        /\ WrappedFrom(ret.val.nm, ZMul(arg.n, ScaleToBase(arg.t)))

\* C3 amended: from_number(n, U) returns a length tagged U of magnitude
\* n * scale (scale 10^9, 10^6, 10^12 for Meter, Millimeter, Kilometer) when
\* the product fits in an i64; when it does not, the construction panics in
\* a build with overflow checks and wraps modulo 2^64 only in a build
\* without them.
C3_ProductInRange ==
    op = "from_i64" => InRangeOrOverflow(ZMul(arg.n, ScaleToBase(arg.t)), arg.t)

\* a construction whose product is outside the i64 range wrapped around
C3_Witness ==
    /\ op = "from_i64" /\ ret.ok /\ ~overflow_checks
    /\ ~InI64(ZMul(arg.n, ScaleToBase(arg.t)))
    /\ ret.val.nm # ZMul(arg.n, ScaleToBase(arg.t))

\* ---- C4 -----------------------------------------------------------------
\* the number n as an f64, nothing rounded
AsFloat(n) == F64Fin(n.neg, n.mag, 0)

\* a construction from the integer n was followed by a conversion back
RoundTrip == pc = "converted" /\ op \in {"from_i64", "from_ref_i64"}

\* C4 as stated: for any unit U and any integer n,
\* to_number(from_number(n, U), U) == n.
C4_AsStated ==
    RoundTrip =>
        /\ op2 = "i64_from" => ret2.val = arg.n
        /\ op2 = "f64_from" => ret2.val = AsFloat(arg.n)

\* C4 amended: to_number(from_number(n, U), U) == n for every n whose product
\* n * scale fits in an i64 and is exactly representable as an f64 (every
\* product of magnitude at most 2^53 is).
C4_RoundTripExact ==
    (/\ RoundTrip
     /\ InI64(ZMul(arg.n, ScaleToBase(arg.t)))
     /\ ExactInF64(ZMul(arg.n, ScaleToBase(arg.t)))) =>
        /\ op2 = "i64_from" => ret2.val = arg.n
        /\ op2 = "f64_from" => ret2.val = AsFloat(arg.n)

\* a round trip through a magnitude above 2^53 gave the number back
C4_Witness ==
    /\ RoundTrip /\ op2 = "i64_from" /\ ret2.val = arg.n
    /\ ret.val.nm = ZMul(arg.n, ScaleToBase(arg.t))
    /\ NatBitLen(ret.val.nm.mag) > MantBits

\* ---- C5 -----------------------------------------------------------------
\* C5 as stated: for every length L and integer s, L * s and s * L both have
\* magnitude L.nm * s and keep L's tag.
C5_AsStated ==
    op \in {"mul_i64", "i64_mul"} =>
        ret = Ok(Length(ZMul(arg.a.nm, arg.n), arg.a.unit))

\* C5 amended: L * s and s * L end the same way: with L's tag and magnitude
\* L.nm * s whenever the product fits in an i64; when it does not, both
\* panic in a build with overflow checks and both return the product
\* wrapped modulo 2^64 otherwise.
C5_ProductInRange ==
    /\ op \in {"mul_i64", "i64_mul"} =>
          InRangeOrOverflow(ZMul(arg.a.nm, arg.n), arg.a.unit)
    /\ op = "mul_i64" => ret = i64_mul(overflow_checks, arg.n, arg.a)
    /\ op = "i64_mul" => ret = mul_i64(overflow_checks, arg.a, arg.n)

\* s * L returned the product, for a scalar and a magnitude other than 0, 1
C5_Witness ==
    /\ op = "i64_mul" /\ ret.ok
    /\ NatCmp(arg.a.nm.mag, <<1>>) > 0 /\ NatCmp(arg.n.mag, <<1>>) > 0
    /\ ret.val = Length(ZMul(arg.a.nm, arg.n), arg.a.unit)

\* ---- C6 -----------------------------------------------------------------
\* C6 as stated: L / s for every nonzero s is a length with L's tag and
\* magnitude L.nm / s rounded toward zero; for s = 0 it is a fatal error.
C6_AsStated ==
    op = "div_i64" =>
        IF arg.n = Z0 THEN ret.panic
        ELSE /\ ret.ok /\ ret.val.unit = arg.a.unit
             /\ TruncQuotient(ret.val.nm, arg.a.nm, arg.n)

\* C6 amended: L / s is a length with L's tag and magnitude L.nm / s rounded
\* toward zero for every nonzero s except when L.nm = -2^63 and s = -1; for
\* s = 0, and for L.nm = -2^63 with s = -1, the operation ends in a fatal
\* arithmetic error and produces no length.
C6_QuotientOrPanic ==
    op = "div_i64" =>
        IF arg.n = Z0 \/ (arg.a.nm = ZNeg(ZPow2(Bits - 1)) /\ arg.n = ZOfInt(-1))
        THEN ret.panic
        ELSE /\ ret.ok /\ ret.val.unit = arg.a.unit
             /\ InI64(ret.val.nm)
             /\ TruncQuotient(ret.val.nm, arg.a.nm, arg.n)

\* a division of a negative magnitude that left a remainder returned
C6_Witness ==
    /\ op = "div_i64" /\ ret.ok /\ arg.a.nm.neg
    /\ ZMul(ret.val.nm, arg.n) # arg.a.nm

\* ---- C7 -----------------------------------------------------------------
\* the f64 nearest to num / den
Ratio(num, den) == F64Div(AsFloat(ZOfInt(num)), AsFloat(ZOfInt(den)))

\* C7: in main, l1 is 10,000,000 nm and l2 5,000,000,000 nm, and they stay
\* so; l3 = (5 * l1) + l2 is 5,050,000,000 nm tagged Millimeter, 5050 in its
\* unit; relabeled to Meter it is the same magnitude, 5.05 meters; l3 > l2
\* is true and l3 / l2 is 1.01.
C7_MainScenario ==
    /\ pc \in {"L255", "L256", "L257", "L258", "L260", "exit"} =>
          l1 = Length(Thousands(<<10, 0, 0>>), "Millimeters")
    /\ pc \in {"L256", "L257", "L258", "L260", "exit"} =>
          l2 = Length(Thousands(<<5, 0, 0, 0>>), "Meters")
    /\ pc \in {"L257", "L258", "L260", "exit"} =>
          /\ l3 = Length(Thousands(<<5, 50, 0, 0>>), "Millimeters")
          /\ i64_from(l3) = ZOfInt(5050)
          /\ fmt(l3).num = AsFloat(ZOfInt(5050))
          /\ from_ref_length(l3, "Meters").nm = Thousands(<<5, 50, 0, 0>>)
    /\ pc \in {"L258", "L260", "exit"} => l3_meters = Ratio(505, 100)
    /\ pc = "exit" =>
          /\ Len(stdout) = 8
          /\ stdout[3] = <<"l3 = (5 * l1) + l2 = ",
                           [num |-> AsFloat(ZOfInt(5050)), name |-> "millimeter",
                            s |-> "s"]>>
          /\ stdout[4] = <<"l3_meters = ", Ratio(505, 100)>>
          /\ stdout[6] = <<"l3 > l2 : ", TRUE>>
          /\ stdout[7] = <<"l3 / l2 = ", Ratio(101, 100)>>
    /\ pc # "panicked"

\* main ran to its end
C7_Witness == pc = "exit" /\ Len(stdout) = 8 /\ stdout[6][2] = TRUE

\* ---- C8 -----------------------------------------------------------------
\* C8: for every length of magnitude n in 0 .. 2^63-1, sqrt returns Ok with
\* a length of the same tag and magnitude r, r >= 0 and r*r <= n < (r+1)^2;
\* for a negative magnitude it returns the failure and no length.
C8_AsStated ==
    op = "sqrt" =>
        IF arg.a.nm.neg
        THEN ~ret.ok /\ ~ret.panic /\ ret.msg # ""
        ELSE /\ ret.ok /\ ret.val.unit = arg.a.unit
             /\ ~ret.val.nm.neg
             /\ ZLe(ZMul(ret.val.nm, ret.val.nm), arg.a.nm)
             /\ ZLt(arg.a.nm, ZMul(ZAdd(ret.val.nm, ZOfInt(1)),
                                   ZAdd(ret.val.nm, ZOfInt(1))))

\* what the code does: as stated below 2^62 and in a build without overflow
\* checks; from 2^62 on, a build with overflow checks panics on `n >> 64`
C8_ExceptShiftOverflow ==
    (op = "sqrt" /\ overflow_checks /\ ~arg.a.nm.neg
        /\ NatBitLen(arg.a.nm.mag) = Bits - 1)
    \/ C8_AsStated

Trunc(x) ==
    IF x.exp >= 0 THEN Z(x.neg, NatShl(x.mant, x.exp))
    ELSE Z(x.neg, NatShr(x.mant, -x.exp))

OneAndAHalf == F64Fin(FALSE, <<3>>, -1)

\* C10 as stated: for every x in the 64-bit range, from_number(x, U) has
\* magnitude trunc(x) * scale.
C10_AsStated ==
    (op = "from_f64" /\ InI64(Trunc(arg.x))) =>
        ret = Ok(Length(ZMul(Trunc(arg.x), ScaleToBase(arg.t)), arg.t))

\* C10 amended: for every x in the 64-bit range, from_number(x, U) ends
\* exactly as from_number(trunc(x), U) does: the fraction is dropped before
\* scaling, and the magnitude is trunc(x) * scale whenever that product fits
\* in an i64 (so from_number(1.5, Meter) is 1,000,000,000 nm); a product
\* outside the range panics or wraps as it does for an integer.
C10_TruncatedBeforeScaling ==
    (op = "from_f64" /\ InI64(Trunc(arg.x))) =>
        /\ ret = from_i64(overflow_checks, Trunc(arg.x), arg.t)
        /\ InRangeOrOverflow(ZMul(Trunc(arg.x), ScaleToBase(arg.t)), arg.t)
        /\ (arg.x = OneAndAHalf /\ arg.t = "Meters") =>
              ret = Ok(Length(Thousands(<<1, 0, 0, 0>>), "Meters"))

\* from_number(1.5, Meter) returned 1,000,000,000 nm
C10_Witness ==
    /\ op = "from_f64" /\ arg.x = OneAndAHalf /\ arg.t = "Meters"
    /\ ret = Ok(Length(Thousands(<<1, 0, 0, 0>>), "Meters"))

=============================================================================
